---- MODULE Spec2Model ----
(***************************************************************************)
(* Model of the media-generation front end: the video status poller of    *)
(* the VideoProvider (pollVideoStatus), the prompt CRUD operations of the *)
(* PromptProvider, the client-side image pipeline (generateImage), the    *)
(* generation hooks with their page handlers and back end, the video CRUD *)
(* operations of the VideoProvider and the history page (loadHistory).    *)
(***************************************************************************)
EXTENDS Integers, Sequences, FiniteSets, TLC

VARIABLES
    \* ---- video poller (VideoContext.pollVideoStatus) ----
    dbVideo,        \* status of the polled row in the videos table, or "deleted"
    videos,         \* the provider's local copy of the polled video: a status, or "absent"
    timerActive,    \* the setInterval timer of the poller is still scheduled
    queries,        \* the getVideoById calls issued by ticks, each with its stage and result
    callbacks,      \* the statuses handed to onStatusChange, in call order
    pollErrors,     \* number of "Failed to poll video status" lines logged
    cancelled,      \* the cleanup function returned by pollVideoStatus was called
    \* ---- prompts (PromptContext) ----
    dbPrompts,      \* the prompts table: id -> row, or NoRow
    prompts,        \* the PromptProvider's local state: a sequence of rows
    authUser,       \* the signed-in user's id, or "none"
    \* ---- image pipeline (imageApi.generateImage) ----
    dbImages,       \* the images table: a set of rows
    storage,        \* the file names held by the "images" storage bucket
    now,            \* the value Date.now() returns
    gen,            \* the running generateImage call: its position and locals
    calls,          \* the requests the call has sent so far, in order: <<operation, item>>
    \* ---- generation hooks (useImageGeneration, useVideoGeneration) ----
    hook,           \* per kind, the hook's state: loading, error, progress step, position
    api,            \* per kind, the generation request the hook is waiting for
    apiCalls,       \* number of calls of imageApi.generateImage / videoApi.generateVideo so far
    \* ---- videos table (VideoContext) ----
    dbVideos,       \* the videos table: id -> row, or NoVideo
    userVideos,     \* the VideoProvider's local state: a sequence of rows
    \* ---- history page (HistoryPage.loadHistory) ----
    history,        \* the running loadHistory: its position and the three fetched lists
    generationItems, \* the page's list of generation items
    filterType,     \* the selected type filter: "all", "image" or "video"
    sortBy,         \* the selected order: "newest" or "oldest"
    searchQuery,    \* the text typed into the search field
    \* ---- serverless proxy (api/generate-image handler) ----
    proxy,          \* the request the handler has received and the reply it has sent
    \* ---- provider caches (ImageProvider, VideoProvider, PromptProvider) ----
    images,         \* the ImageProvider's local state: a sequence of rows
    refreshes,      \* per table, the users whose refresh query is in flight
    \* ---- credits (UserProvider) ----
    dbCredits,      \* credits_remaining of the user's row in the users table
    currentUser,    \* the UserProvider's local copy of the row, or NoUser
    creditCalls,    \* the deductCredits / addCredits calls awaiting their update
    startCredits,   \* credits_remaining before the first call
    \* ---- app shell (AppContent, Navigation, AuthProvider) ----
    activeSection,  \* AppContent's activeSection
    showLoginPage,  \* AppContent's showLoginPage
    authLoading,    \* the AuthProvider's loading flag
    menus,          \* Navigation's showUserMenu and showMobileMenu
    logout          \* handleLogout: idle, or awaiting signOut

pollVars == <<dbVideo, videos, timerActive, queries, callbacks, pollErrors, cancelled>>

promptVars == <<dbPrompts, prompts, authUser>>

genVars == <<dbImages, storage, now, gen, calls>>

hookVars == <<hook, api, apiCalls>>

videoVars == <<dbVideos, userVideos>>

viewVars == <<filterType, sortBy, searchQuery>>

histVars == <<history, generationItems, viewVars>>

appVars == <<hookVars, videoVars, histVars>>

proxyVars == <<proxy>>

cacheVars == <<images, refreshes>>

creditVars == <<dbCredits, currentUser, creditCalls, startCredits>>

navVars == <<activeSection, showLoginPage, authLoading, menus, logout>>

siteVars == <<proxyVars, cacheVars, creditVars, navVars>>

vars == <<pollVars, promptVars, genVars, appVars, siteVars>>

----------------------------------------------------------------------------
(* Bounds *)

\* number of interval ticks the model lets the timer fire
MaxTicks == 3

\* number of rows the prompts table can hold
MaxPrompts == 2

\* largest number of items one generation response carries
MaxItems == 3

\* largest value of the clock
MaxClock == 1

\* number of generation calls the hooks make
MaxCalls == 2

\* number of rows the videos table can hold
MaxVideos == 2

----------------------------------------------------------------------------
(* Video poller *)

VideoStatus == {"queued", "running", "succeeded", "failed", "cancelled"}

\* The statuses the data model calls terminal (spec section 3).
TerminalStatus == {"succeeded", "failed", "cancelled"}

IsFinalStateNoCancelled(s) == s = "succeeded" \/ s = "failed"

\* part_013:286  the test that stops the polling
IsFinalState(s) == s = "succeeded" \/ s = "failed" \/ s = "cancelled"

QueryIds == 1..MaxTicks

NoQuery == [stage |-> "idle", res |-> "none"]

\* part_013:280  setVideos(prev => prev.map(vid => vid.id === video.id ? video : vid))
MapVideos(prev, s) == IF prev = "absent" THEN "absent" ELSE s

PollInit ==
    /\ dbVideo = "queued"
    /\ videos \in {"queued", "absent"}
    /\ timerActive = TRUE
    /\ queries = [q \in QueryIds |-> NoQuery]
    /\ callbacks = <<>>
    /\ pollErrors = 0
    /\ cancelled = FALSE

NumIssued == Cardinality({q \in QueryIds : queries[q].stage # "idle"})

\* The provider (an external webhook) moves the row forward.
ProviderUpdate ==
    /\ \/ dbVideo = "queued" /\ dbVideo' \in {"running"} \cup TerminalStatus
       \/ dbVideo = "running" /\ dbVideo' \in TerminalStatus
    /\ UNCHANGED <<videos, timerActive, queries, callbacks, pollErrors, cancelled>>
    /\ UNCHANGED <<promptVars, genVars, appVars, siteVars>>

\* part_013:143-155 deleteVideo, seen from the poller: the row is gone.
RowDeleted ==
    /\ dbVideo # "deleted"
    /\ dbVideo' = "deleted"
    /\ UNCHANGED <<videos, timerActive, queries, callbacks, pollErrors, cancelled>>
    /\ UNCHANGED <<promptVars, genVars, appVars, siteVars>>

\* part_013:275-277  an interval tick starts the async callback, which calls getVideoById
Tick ==
    /\ timerActive
    /\ NumIssued < MaxTicks
    /\ LET q == NumIssued + 1 IN
       queries' = [queries EXCEPT ![q] = [stage |-> "sent", res |-> "none"]]
    /\ UNCHANGED <<dbVideo, videos, timerActive, callbacks, pollErrors, cancelled>>
    /\ UNCHANGED <<promptVars, genVars, appVars, siteVars>>

\* part_013:53-65  getVideoById: the select reads the row, finds none (PGRST116 -> null)
\* or fails (throws)
GetVideoByIdResult(row, fails) ==
    IF fails THEN "error"
    ELSE IF row = "deleted" THEN "null"
    ELSE row

QueryRead(q) ==
    /\ queries[q].stage = "sent"
    /\ \E fails \in BOOLEAN :
         queries' = [queries EXCEPT ![q] =
                        [stage |-> "read", res |-> GetVideoByIdResult(dbVideo, fails)]]
    /\ UNCHANGED <<dbVideo, videos, timerActive, callbacks, pollErrors, cancelled>>
    /\ UNCHANGED <<promptVars, genVars, appVars, siteVars>>

\* part_013:278-293  the continuation after the await
QueryDone(q) ==
    /\ queries[q].stage = "read"
    /\ queries' = [queries EXCEPT ![q].stage = "done"]
    /\ LET r == queries[q].res IN
       IF r = "error"
       THEN /\ pollErrors' = pollErrors + 1
            /\ timerActive' = FALSE
            /\ UNCHANGED <<videos, callbacks>>
       ELSE IF r = "null"
       THEN UNCHANGED <<videos, callbacks, pollErrors, timerActive>>
       ELSE /\ videos' = MapVideos(videos, r)
            /\ callbacks' = Append(callbacks, r)
            /\ timerActive' = IF IsFinalState(r) THEN FALSE ELSE timerActive
            /\ UNCHANGED pollErrors
    /\ UNCHANGED <<dbVideo, cancelled>>
    /\ UNCHANGED <<promptVars, genVars, appVars, siteVars>>

\* part_013:297  the cleanup function
Cleanup ==
    /\ ~cancelled
    /\ timerActive' = FALSE
    /\ cancelled' = TRUE
    /\ UNCHANGED <<dbVideo, videos, queries, callbacks, pollErrors>>
    /\ UNCHANGED <<promptVars, genVars, appVars, siteVars>>

PollNext ==
    \/ ProviderUpdate
    \/ RowDeleted
    \/ Tick
    \/ \E q \in QueryIds : QueryRead(q)
    \/ \E q \in QueryIds : QueryDone(q)
    \/ Cleanup

----------------------------------------------------------------------------
(* Prompt table and PromptProvider *)

Users == {"u1", "u2"}

PromptStatus == {"pending", "processing", "completed", "failed"}

PromptIds == 1..MaxPrompts

NoRow == [user_id |-> "none", status |-> "none"]

\* schema.sql:47  ids are generated and never reused: the next free id
NewPromptId == CHOOSE p \in PromptIds : dbPrompts[p] = NoRow /\
                   \A r \in PromptIds : r > p => dbPrompts[r] = NoRow

PromptTableFull == \A p \in PromptIds : dbPrompts[p] # NoRow \/
                       \E r \in PromptIds : r > p /\ dbPrompts[r] # NoRow

\* part_011:84  status: prompt.status || "pending" ("none" is an absent field)
InsertStatus(given) == IF given = "none" THEN "pending" ELSE given

\* part_011:95  setPrompts(prev => [data, ...prev])
Prepend(row, prev) == <<row>> \o prev

\* part_011:115,152  setPrompts(prev => prev.map(p => p.id === data.id ? data : p))
MapPrompts(prev, row) ==
    [i \in DOMAIN prev |-> IF prev[i].id = row.id THEN row ELSE prev[i]]

\* part_011:132  setPrompts(prev => prev.filter(p => p.id !== id))
FilterPrompts(prev, id) == SelectSeq(prev, LAMBDA r : r.id # id)

LocalRow(id, row) == [id |-> id, user_id |-> row.user_id, status |-> row.status]

PromptInit ==
    /\ dbPrompts = [p \in PromptIds |-> NoRow]
    /\ prompts = <<>>
    /\ authUser \in Users \cup {"none"}

\* part_011:78-99  createPrompt
createPrompt(user, given) ==
    /\ ~PromptTableFull
    /\ LET id == NewPromptId
           row == [user_id |-> user, status |-> InsertStatus(given)]
       IN /\ dbPrompts' = [dbPrompts EXCEPT ![id] = row]
          /\ prompts' = IF authUser = row.user_id
                        THEN Prepend(LocalRow(id, row), prompts)
                        ELSE prompts
    /\ UNCHANGED authUser
    /\ UNCHANGED <<pollVars, siteVars, genVars, appVars>>

\* part_011:135-156  updatePromptStatus: the update is unconditional; a missing
\* row makes .single() fail and the call throws without any write
updatePromptStatus(id, status) ==
    /\ dbPrompts[id] # NoRow
    /\ LET row == [dbPrompts[id] EXCEPT !.status = status]
       IN /\ dbPrompts' = [dbPrompts EXCEPT ![id] = row]
          /\ prompts' = IF authUser = row.user_id
                        THEN MapPrompts(prompts, LocalRow(id, row))
                        ELSE prompts
    /\ UNCHANGED authUser
    /\ UNCHANGED <<pollVars, siteVars, genVars, appVars>>

\* part_011:101-119  updatePrompt: updates may carry a status ("none": they do not)
updatePrompt(id, status) ==
    /\ dbPrompts[id] # NoRow
    /\ LET row == IF status = "none" THEN dbPrompts[id]
                  ELSE [dbPrompts[id] EXCEPT !.status = status]
       IN /\ dbPrompts' = [dbPrompts EXCEPT ![id] = row]
          /\ prompts' = IF authUser = row.user_id
                        THEN MapPrompts(prompts, LocalRow(id, row))
                        ELSE prompts
    /\ UNCHANGED authUser
    /\ UNCHANGED <<pollVars, siteVars, genVars, appVars>>

\* part_011:121-133  deletePrompt
deletePrompt(id) ==
    /\ dbPrompts[id] # NoRow
    /\ dbPrompts' = [dbPrompts EXCEPT ![id] = [user_id |-> "gone", status |-> "gone"]]
    /\ prompts' = FilterPrompts(prompts, id)
    /\ UNCHANGED authUser
    /\ UNCHANGED <<pollVars, siteVars, genVars, appVars>>

PromptNext ==
    \/ \E u \in Users, g \in PromptStatus \cup {"none"} : createPrompt(u, g)
    \/ \E id \in PromptIds, st \in PromptStatus : updatePromptStatus(id, st)
    \/ \E id \in PromptIds, st \in PromptStatus \cup {"none"} : updatePrompt(id, st)
    \/ \E id \in PromptIds : deletePrompt(id)

----------------------------------------------------------------------------
(* Serverless proxy and image pipeline *)

\* a character that String.prototype.trim removes
IsWhitespace(c) == c \in {" ", "\t"}

\* String.prototype.trim: the text without its leading and trailing whitespace
RECURSIVE TrimStart(_)
TrimStart(text) ==
    IF text # <<>> /\ IsWhitespace(Head(text)) THEN TrimStart(Tail(text)) ELSE text

RECURSIVE TrimEnd(_)
TrimEnd(text) ==
    IF text # <<>> /\ IsWhitespace(text[Len(text)])
    THEN TrimEnd(SubSeq(text, 1, Len(text) - 1))
    ELSE text

Trim(text) == TrimEnd(TrimStart(text))

\* the prompt texts a caller passes, as sequences of characters: the empty
\* text, a blank one and one with words
PromptTexts == {<<>>, <<" ">>, <<"a", " ", "f", "o", "x">>}

UpstreamStatus == {401, 500}

UpstreamText == {"denied"}

\* what happens to one returned item: it has no url, or its download, upload
\* or images insert fails, or all three succeed
ItemPlan == {"nourl", "dlfail", "upfail", "insfail", "ok"}

ItemPlans == UNION {[1..n -> ItemPlan] : n \in 0..MaxItems}

\* a 2xx body: { data: [...] }, or a body without the data field
ResponseBodies ==
    [present : {TRUE}, items : ItemPlans] \cup {[present |-> FALSE, items |-> <<>>]}

\* the upstream generation API: it answers 2xx with a body (a list of items,
\* or a body without data), answers with an error status and text, or the
\* request throws
UpstreamOutcomes ==
    [kind : {"ok"}, data : ResponseBodies]
        \cup [kind : {"error"}, status : UpstreamStatus, text : UpstreamText]
        \cup [kind : {"throws"}]

\* the HTTP methods a request to the proxy carries
Methods == {"OPTIONS", "GET", "POST"}

\* part_000:22  req.body of a request that carries no body is undefined
NoBody == [present |-> FALSE, prompt |-> <<>>]

\* a JSON body; a body without a prompt field has the empty prompt (both are
\* falsy at part_000:25)
JsonBody(prompt) == [present |-> TRUE, prompt |-> prompt]

RequestBodies == {NoBody} \cup {JsonBody(text) : text \in PromptTexts}

\* part_000:4-71  handler: the reply of the proxy, and whether it called upstream.
\* Destructuring an undefined req.body (line 22) throws inside the try block
\* and is answered by the catch block (65-69).
handler(method, body, keySet, up) ==
    IF method = "OPTIONS" THEN [status |-> 200, body |-> <<>>, forwarded |-> FALSE]
    ELSE IF method # "POST"
    THEN [status |-> 405, body |-> <<"Method not allowed">>, forwarded |-> FALSE]
    ELSE IF ~body.present
    THEN [status |-> 500, body |-> <<"Internal server error: ">>, forwarded |-> FALSE]
    ELSE IF Len(body.prompt) = 0
    THEN [status |-> 400, body |-> <<"Prompt is required">>, forwarded |-> FALSE]
    ELSE IF ~keySet
    THEN [status |-> 500, body |-> <<"API key not configured">>, forwarded |-> FALSE]
    ELSE IF up.kind = "throws"
    THEN [status |-> 500, body |-> <<"Internal server error: ">>, forwarded |-> TRUE]
    ELSE IF up.kind = "error"
    THEN [status |-> up.status,
          body |-> <<"API Error: ", up.status, " - ", up.text>>,
          forwarded |-> TRUE]
    ELSE [status |-> 200, body |-> up.data, forwarded |-> TRUE]

ProxyIdle ==
    [pc |-> "idle", method |-> "POST", body |-> NoBody, keySet |-> FALSE,
     upstream |-> <<>>, status |-> 0, reply |-> <<>>]

ProxyInit == proxy = ProxyIdle

\* One request handled from its arrival to the reply: `upstream` lists what
\* the upstream API answered to the calls the handler made.
ProxyHandle(method, body, keySet, up) ==
    /\ proxy.pc = "idle"
    /\ LET reply == handler(method, body, keySet, up)
       IN  proxy' = [pc |-> "replied", method |-> method, body |-> body,
                     keySet |-> keySet,
                     upstream |-> IF reply.forwarded THEN <<up>> ELSE <<>>,
                     status |-> reply.status, reply |-> reply.body]
    /\ UNCHANGED <<pollVars, promptVars, genVars, appVars>>
    /\ UNCHANGED <<cacheVars, creditVars, navVars>>

\* the reply has been delivered; the function instance waits for a request
ProxyDone ==
    /\ proxy.pc = "replied"
    /\ proxy' = ProxyIdle
    /\ UNCHANGED <<pollVars, promptVars, genVars, appVars>>
    /\ UNCHANGED <<cacheVars, creditVars, navVars>>

ProxyNext ==
    \/ \E method \in Methods, body \in RequestBodies, keySet \in BOOLEAN,
          up \in UpstreamOutcomes : ProxyHandle(method, body, keySet, up)
    \/ ProxyDone

\* response.ok
ResponseOk(status) == status >= 200 /\ status <= 299

\* part_009:94  `Server error: ${response.status} - ${errorText}`
ServerError(status, body) == <<"Server error: ", status, " - ", body>>

NoImageData == <<"No image data received from API">>

NoneSaved == <<"No images were successfully processed and saved">>

PromptInsertFailed == <<"Failed to create prompt record">>

FetchFailed == <<"fetch failed">>

\* part_009:126  `${promptRecord.id}_${index + 1}_${Date.now()}.png`
FileNameWithoutIndex(promptId, index, time) == <<promptId, 1, time>>

\* part_009:126  `${promptRecord.id}_${index + 1}_${Date.now()}.png`
FileName(promptId, index, time) == <<promptId, index + 1, time>>

GenIdle ==
    [pc |-> "idle", user |-> "none", text |-> <<>>, promptId |-> 0,
     fetched |-> "none", upstream |-> [kind |-> "none"], data |-> <<>>,
     index |-> 0, bucketUrl |-> <<>>, savedImages |-> <<>>,
     result |-> [ok |-> FALSE, error |-> <<>>]]

\* The tables are empty, or hold what an earlier call that saved one image at
\* time 0 has left: its prompt row, its file and its image row.
GenInit ==
    /\ now = 0
    /\ gen = GenIdle
    /\ calls = <<>>
    /\ \/ /\ dbPrompts = [p \in PromptIds |-> NoRow]
          /\ dbImages = {}
          /\ storage = {}
       \/ /\ dbPrompts = [p \in PromptIds |->
                             IF p = 1 THEN [user_id |-> "u1", status |-> "pending"]
                             ELSE NoRow]
          /\ dbImages = {[id |-> 1, prompt_id |-> 1, url |-> 0]}
          /\ storage = {FileName(1, 0, 0)}

\* part_009:172-175  the outer catch rethrows: the call ends with the error
Throw(g, err) == [g EXCEPT !.pc = "done", !.result = [ok |-> FALSE, error |-> err]]

\* part_009:126  Date.now(): the time read is the last one read, or later
DateNow == {t \in now..(now + 1) : t <= MaxClock}

\* part_009:36-44  generateImage is called
GenStart(user, text) ==
    /\ gen.pc = "idle"
    /\ ~PromptTableFull
    /\ gen' = [GenIdle EXCEPT !.pc = "insertPrompt", !.user = user, !.text = text]
    /\ UNCHANGED <<dbImages, storage, now, dbPrompts, calls>>
    /\ UNCHANGED <<pollVars, siteVars, prompts, authUser, appVars>>

\* schema.sql:49  CHECK (length(prompt) > 0)
PromptCheck(text) == Len(text) > 0

PromptInsertIgnored(g) == [g EXCEPT !.pc = "fetch"]

\* part_009:64-66  a failed prompts insert throws
PromptInsertError(g) == Throw(g, PromptInsertFailed)

\* part_009:47-66  step 1: the prompts insert; the row gets the table's default
\* status (schema.sql:57), the insert carries none
GenInsertPrompt(dbOk) ==
    /\ gen.pc = "insertPrompt"
    /\ IF dbOk /\ PromptCheck(gen.text)
       THEN /\ dbPrompts' = [dbPrompts EXCEPT ![NewPromptId] =
                                [user_id |-> gen.user, status |-> InsertStatus("none")]]
            /\ gen' = [gen EXCEPT !.pc = "fetch", !.promptId = NewPromptId]
       ELSE /\ gen' = PromptInsertError(gen)
            /\ UNCHANGED dbPrompts
    /\ calls' = Append(calls, <<"insertPrompt", 0>>)
    /\ UNCHANGED <<dbImages, storage, now>>
    /\ UNCHANGED <<pollVars, siteVars, prompts, authUser, appVars>>

\* part_009:78-111  step 2: the call of the serverless function and the checks
\* of its reply
GenFetch ==
    /\ gen.pc = "fetch"
    /\ \E reachable, keySet \in BOOLEAN, up \in UpstreamOutcomes :
         LET reply == handler("POST", JsonBody(gen.text), keySet, up)
             seen == IF reply.forwarded THEN up ELSE [kind |-> "none"]
         IN
         gen' =
           IF ~reachable THEN Throw([gen EXCEPT !.fetched = "network"], FetchFailed)
           ELSE IF ~ResponseOk(reply.status)
           THEN Throw([gen EXCEPT !.fetched = "http", !.upstream = seen],
                      ServerError(reply.status, reply.body))
           ELSE IF ~reply.body.present \/ Len(reply.body.items) = 0
           THEN Throw([gen EXCEPT !.fetched = "ok", !.upstream = seen], NoImageData)
           ELSE [gen EXCEPT !.pc = "item", !.fetched = "ok", !.upstream = seen,
                            !.data = reply.body.items, !.index = 0]
    /\ calls' = Append(calls, <<"fetch", 0>>)
    /\ UNCHANGED <<dbImages, storage, now, dbPrompts>>
    /\ UNCHANGED <<pollVars, siteVars, prompts, authUser, appVars>>

NoneSavedCheck(saved) == saved = <<>>

UploadFirst == "upload"

\* part_009:121-123  the first request made for an item is its download
FirstItemStep == "download"

\* part_009:113-119,162-170  the loop head: the next item, or step 4 after the last
GenItem ==
    /\ gen.pc = "item"
    /\ gen' =
         IF gen.index >= Len(gen.data)
         THEN IF NoneSavedCheck(gen.savedImages)
              THEN Throw(gen, NoneSaved)
              ELSE [gen EXCEPT !.pc = "done",
                               !.result = [ok |-> TRUE, promptId |-> gen.promptId,
                                           images |-> gen.savedImages]]
         ELSE IF gen.data[gen.index + 1] = "nourl"
         THEN [gen EXCEPT !.index = gen.index + 1]
         ELSE [gen EXCEPT !.pc = FirstItemStep]
    /\ UNCHANGED <<dbImages, storage, now, dbPrompts, calls>>
    /\ UNCHANGED <<pollVars, siteVars, prompts, authUser, appVars>>

SkipItem(g) == [g EXCEPT !.pc = "item", !.index = g.index + 1]

AbortItems(g) == [g EXCEPT !.pc = "item", !.index = Len(g.data)]

\* part_009:156-159  the per-item catch: log and go on with the next item
CatchItem(g) == SkipItem(g)

\* part_009:123,227-233  downloadImageAsBlob
GenDownload ==
    /\ gen.pc = "download"
    /\ gen' = IF gen.data[gen.index + 1] = "dlfail"
              THEN CatchItem(gen)
              ELSE [gen EXCEPT !.pc = "upload"]
    /\ calls' = Append(calls, <<"download", gen.index>>)
    /\ UNCHANGED <<dbImages, storage, now, dbPrompts>>
    /\ UNCHANGED <<pollVars, siteVars, prompts, authUser, appVars>>

\* part_009:126-127,238-256  uploadImageToSupabase: upsert is false, so an
\* existing file name makes the upload fail
GenUpload ==
    /\ gen.pc = "upload"
    /\ \E t \in DateNow :
         /\ now' = t
         /\ LET fileName == FileName(gen.promptId, gen.index, t) IN
            IF gen.data[gen.index + 1] = "upfail" \/ fileName \in storage
            THEN /\ gen' = CatchItem(gen)
                 /\ UNCHANGED storage
            ELSE /\ storage' = storage \cup {fileName}
                 /\ gen' = [gen EXCEPT !.pc = "insertImage", !.bucketUrl = fileName]
    /\ calls' = Append(calls, <<"upload", gen.index>>)
    /\ UNCHANGED <<dbImages, dbPrompts>>
    /\ UNCHANGED <<pollVars, siteVars, prompts, authUser, appVars>>

NewImageId == Cardinality(dbImages) + 1

\* part_009:130-154  the images insert and the push onto savedImages
GenInsertImage ==
    /\ gen.pc = "insertImage"
    /\ IF gen.data[gen.index + 1] = "insfail"
       THEN /\ gen' = SkipItem(gen)
            /\ UNCHANGED dbImages
       ELSE /\ dbImages' = dbImages \cup
                   {[id |-> NewImageId, prompt_id |-> gen.promptId, url |-> gen.index]}
            /\ gen' = [SkipItem(gen) EXCEPT !.savedImages =
                          Append(gen.savedImages,
                                 [id |-> NewImageId, url |-> gen.index,
                                  bucketUrl |-> gen.bucketUrl])]
    /\ calls' = Append(calls, <<"insertImage", gen.index>>)
    /\ UNCHANGED <<storage, now, dbPrompts>>
    /\ UNCHANGED <<pollVars, siteVars, prompts, authUser, appVars>>

GenNext ==
    \/ \E u \in Users, t \in PromptTexts : GenStart(u, t)
    \/ \E dbOk \in BOOLEAN : GenInsertPrompt(dbOk)
    \/ GenFetch
    \/ GenItem
    \/ GenDownload
    \/ GenUpload
    \/ GenInsertImage

----------------------------------------------------------------------------
(* Generation hooks, page handlers and the generation back end *)

Kinds == {"image", "video"}

\* the texts typed into the prompt field
TypedTexts == {<<" ">>, <<" ", "a">>}

\* the prompt a component passes when it calls the hook itself (the hooks do
\* not look at the text)
PassedTexts == {<<"a">>}

\* error: null
NoError == <<>>

\* part_018:252-254, useVideoGeneration.ts:69-71
AuthError(k) ==
    IF k = "image"
    THEN <<"User must be authenticated to generate images">>
    ELSE <<"User must be authenticated to generate videos">>

\* the message of the error the API function throws
ApiError == <<"generation failed">>

\* part_018:226-233, useVideoGeneration.ts:42-49  the hook's initial state
HookIdle ==
    [loading |-> FALSE, error |-> NoError, step |-> "idle", pc |-> "idle", ret |-> "none"]

ApiIdle == [stage |-> "idle", user |-> "none", text |-> <<>>, promptId |-> 0, task |-> "none"]

VideoIds == 1..MaxVideos

NoVideo == [prompt_id |-> 0, status |-> "none", url |-> "null", task_id |-> "null"]

\* schema.sql:74  ids are generated and never reused: the next free id
NewVideoId == CHOOSE v \in VideoIds : dbVideos[v] = NoVideo /\
                  \A r \in VideoIds : r > v => dbVideos[r] = NoVideo

VideoTableFull == \A v \in VideoIds : dbVideos[v] # NoVideo \/
                      \E r \in VideoIds : r > v /\ dbVideos[r] # NoVideo

HookInit ==
    /\ hook = [k \in Kinds |-> HookIdle]
    /\ api = [k \in Kinds |-> ApiIdle]
    /\ apiCalls = 0
    /\ authUser \in Users \cup {"none"}
    /\ prompts = <<>>
    /\ dbPrompts = [p \in PromptIds |-> NoRow]
    /\ dbVideos = [v \in VideoIds |-> NoVideo]
    /\ userVideos = <<>>

NoUserIdNever(user) == FALSE

\* part_018:251, useVideoGeneration.ts:68  !user?.id
NoUserId(user) == user = "none"

\* part_018:269, useVideoGeneration.ts:83  the progress step shown while the
\* hook awaits the API function
AwaitStep(k) == IF k = "image" THEN "saving" ELSE "generating"

\* part_018:248-275, useVideoGeneration.ts:65-88  generateImage / generateVideo
\* of the hooks, up to the await of the API function; cleared says that the
\* caller ran clearError first
HookGenerate(k, text, cleared) ==
    LET h == IF cleared THEN [hook[k] EXCEPT !.error = NoError] ELSE hook[k] IN
    IF NoUserId(authUser)
    THEN /\ hook' = [hook EXCEPT ![k] = [h EXCEPT !.error = AuthError(k), !.ret = "null"]]
         /\ UNCHANGED <<api, apiCalls>>
    ELSE /\ hook[k].pc = "idle"
         /\ apiCalls < MaxCalls
         /\ hook' = [hook EXCEPT ![k] =
                        [h EXCEPT !.loading = TRUE, !.error = NoError,
                                  !.step = AwaitStep(k), !.pc = "awaiting"]]
         /\ api' = [api EXCEPT ![k] =
                        [ApiIdle EXCEPT !.stage = "called", !.user = authUser, !.text = text]]
         /\ apiCalls' = apiCalls + 1

\* a component calls the hook's generate function directly
generate(k, text) ==
    /\ HookGenerate(k, text, FALSE)
    /\ UNCHANGED <<dbPrompts, prompts, authUser, videoVars>>
    /\ UNCHANGED <<pollVars, siteVars, genVars, histVars>>

\* ImageGenerationPage.tsx:71-84, part_016:51-67  handleGenerate of the pages
handleGenerate(k, text) ==
    /\ IF Trim(text) = <<>> \/ authUser = "none"
       THEN UNCHANGED hookVars
       ELSE HookGenerate(k, Trim(text), TRUE)
    /\ UNCHANGED <<dbPrompts, prompts, authUser, videoVars>>
    /\ UNCHANGED <<pollVars, siteVars, genVars, histVars>>

\* Backend_API_Requirements.md:58,151-153  the back end takes the request: it
\* creates the prompts row and, for a video, submits the task to the provider
ApiAccept(k) ==
    /\ api[k].stage = "called"
    /\ ~PromptTableFull
    /\ dbPrompts' = [dbPrompts EXCEPT ![NewPromptId] =
                        [user_id |-> api[k].user, status |-> "pending"]]
    /\ api' = [api EXCEPT ![k].stage = "accepted", ![k].promptId = NewPromptId,
                          ![k].task = IF k = "video" THEN "queued" ELSE "none"]
    /\ UNCHANGED <<hook, apiCalls, prompts, authUser, videoVars>>
    /\ UNCHANGED <<pollVars, siteVars, genVars, histVars>>

\* Backend_API_Requirements.md:154  the provider starts to render the video
ApiProgress ==
    /\ api["video"].stage = "accepted"
    /\ api["video"].task = "queued"
    /\ api' = [api EXCEPT !["video"].task = "running"]
    /\ UNCHANGED <<hook, apiCalls, promptVars, videoVars>>
    /\ UNCHANGED <<pollVars, siteVars, genVars, histVars>>

\* Backend_API_Requirements.md:155-157, schema.sql:320-321  the video is
\* rendered: the back end stores it, saves the videos row and answers with
\* the video URL
VideoApiResolve ==
    /\ api["video"].stage = "accepted"
    /\ api["video"].task \in {"queued", "running"}
    /\ ~VideoTableFull
    /\ dbVideos' = [dbVideos EXCEPT ![NewVideoId] =
                       [prompt_id |-> api["video"].promptId, status |-> "succeeded",
                        url |-> "url", task_id |-> "null"]]
    /\ api' = [api EXCEPT !["video"].stage = "resolved", !["video"].task = "succeeded"]
    /\ UNCHANGED <<hook, apiCalls, promptVars, userVideos>>
    /\ UNCHANGED <<pollVars, siteVars, genVars, histVars>>

\* Backend_API_Requirements.md:59-76  the image is generated: the back end
\* stores it, saves the images row and answers
ImageApiResolve ==
    /\ api["image"].stage = "accepted"
    /\ dbImages' = dbImages \cup
           {[id |-> NewImageId, prompt_id |-> api["image"].promptId, url |-> 0]}
    /\ api' = [api EXCEPT !["image"].stage = "resolved"]
    /\ UNCHANGED <<hook, apiCalls, promptVars, videoVars>>
    /\ UNCHANGED <<pollVars, siteVars, storage, now, gen, calls, histVars>>

\* schema.sql:315-318  the request fails: a non-2xx answer or a network error
ApiReject(k) ==
    /\ api[k].stage \in {"called", "accepted"}
    /\ api' = [api EXCEPT ![k].stage = "rejected",
                          ![k].task = IF api[k].task = "none" THEN "none" ELSE "failed"]
    /\ UNCHANGED <<hook, apiCalls, promptVars, videoVars>>
    /\ UNCHANGED <<pollVars, siteVars, genVars, histVars>>

HookSettleKeepsStep(h, failed) ==
    IF failed
    THEN [h EXCEPT !.loading = FALSE, !.error = ApiError, !.pc = "idle", !.ret = "null"]
    ELSE [h EXCEPT !.loading = FALSE, !.pc = "idle", !.ret = "result"]

\* part_018:285-307, useVideoGeneration.ts:92-117  the hook's state after the
\* last setState of the try block, or of the catch block when the call failed
HookSettle(h, failed) ==
    IF failed
    THEN [h EXCEPT !.loading = FALSE, !.error = ApiError, !.step = "idle",
                   !.pc = "idle", !.ret = "null"]
    ELSE [h EXCEPT !.loading = FALSE, !.step = "idle", !.pc = "idle", !.ret = "result"]

\* part_018:275-308, useVideoGeneration.ts:88-118  the continuation of the
\* hook after the await: the catch block, or the rest of the try block; the
\* image hook shows the step completed and awaits refreshUserImages
\* (part_018:280-283) before it settles
HookContinue(k) ==
    /\ hook[k].pc = "awaiting"
    /\ api[k].stage \in {"resolved", "rejected"}
    /\ hook' = [hook EXCEPT ![k] =
                   IF k = "image" /\ api[k].stage = "resolved"
                   THEN [@ EXCEPT !.step = "completed", !.pc = "refreshing"]
                   ELSE HookSettle(@, api[k].stage = "rejected")]
    /\ api' = [api EXCEPT ![k].stage = "idle"]
    /\ UNCHANGED <<apiCalls, promptVars, videoVars>>
    /\ UNCHANGED <<pollVars, siteVars, genVars, histVars>>

\* part_018:283-294, ImageContext.tsx:183-195  refreshUserImages has settled
\* (it catches its own errors): the image hook settles with the result
HookRefreshed ==
    /\ hook["image"].pc = "refreshing"
    /\ hook' = [hook EXCEPT !["image"] = HookSettle(@, FALSE)]
    /\ UNCHANGED <<api, apiCalls, promptVars, videoVars>>
    /\ UNCHANGED <<pollVars, siteVars, genVars, histVars>>

\* part_010:51-61  onAuthStateChange: a user signs in, or the session ends
AuthStateChange(user) ==
    /\ authUser # user
    /\ authUser' = user
    /\ UNCHANGED <<dbPrompts, prompts, hookVars, videoVars>>
    /\ UNCHANGED <<pollVars, siteVars, genVars, histVars>>

HookNext ==
    \/ \E k \in Kinds, t \in PassedTexts : generate(k, t)
    \/ \E k \in Kinds, t \in TypedTexts : handleGenerate(k, t)
    \/ \E k \in Kinds : ApiAccept(k)
    \/ ApiProgress
    \/ VideoApiResolve
    \/ ImageApiResolve
    \/ \E k \in Kinds : ApiReject(k)
    \/ \E k \in Kinds : HookContinue(k)
    \/ HookRefreshed
    \/ \E u \in Users \cup {"none"} : AuthStateChange(u)

----------------------------------------------------------------------------
(* Video CRUD of the VideoProvider *)

\* the url and the task id of a videos row: absent or set
VideoUrls == {"null", "url"}

\* part_013:102  status: video.status || "queued" ("none" is an absent field)
VideoInsertStatus(given) == IF given = "none" THEN "queued" ELSE given

\* part_013:120  setVideos(prev => [data, ...prev])
PrependVideo(row, prev) == <<row>> \o prev

\* part_013:138,183  setVideos(prev => prev.map(vid => vid.id === data.id ? data : vid))
MapUserVideos(prev, row) ==
    [i \in DOMAIN prev |-> IF prev[i].id = row.id THEN row ELSE prev[i]]

\* part_013:154  setVideos(prev => prev.filter(vid => vid.id !== id))
FilterVideos(prev, id) == SelectSeq(prev, LAMBDA r : r.id # id)

LocalVideo(id, row) ==
    [id |-> id, prompt_id |-> row.prompt_id, status |-> row.status,
     url |-> row.url, task_id |-> row.task_id]

\* the prompts the videos belong to: one of each user
VideoInit ==
    /\ dbPrompts = [p \in PromptIds |->
                       [user_id |-> IF p = 1 THEN "u1" ELSE "u2", status |-> "pending"]]
    /\ prompts = <<>>
    /\ authUser \in Users \cup {"none"}
    /\ dbVideos = [v \in VideoIds |-> NoVideo]
    /\ userVideos = <<>>

\* part_013:97-123  createVideo: the insert, then the owner of the prompt is
\* looked up and the row is put in the local state if it is the signed-in user
createVideo(pid, given, task) ==
    /\ ~VideoTableFull
    /\ dbPrompts[pid] # NoRow
    /\ LET id == NewVideoId
           row == [prompt_id |-> pid, status |-> VideoInsertStatus(given),
                   url |-> "null", task_id |-> task]
       IN /\ dbVideos' = [dbVideos EXCEPT ![id] = row]
          /\ userVideos' = IF authUser = dbPrompts[pid].user_id
                           THEN PrependVideo(LocalVideo(id, row), userVideos)
                           ELSE userVideos
    /\ UNCHANGED <<hookVars, promptVars>>
    /\ UNCHANGED <<pollVars, siteVars, genVars, histVars>>

\* a row that can be updated: it exists and is not deleted
VideoPresent(id) == dbVideos[id].status \in VideoStatus

\* part_013:125-141  updateVideo: the update is unconditional; updates may
\* carry a status and a url ("none": they do not)
updateVideo(id, status, url) ==
    /\ VideoPresent(id)
    /\ LET row == [dbVideos[id] EXCEPT
                      !.status = IF status = "none" THEN @ ELSE status,
                      !.url = IF url = "none" THEN @ ELSE url]
       IN /\ dbVideos' = [dbVideos EXCEPT ![id] = row]
          /\ userVideos' = MapUserVideos(userVideos, LocalVideo(id, row))
    /\ UNCHANGED <<hookVars, promptVars>>
    /\ UNCHANGED <<pollVars, siteVars, genVars, histVars>>

\* part_013:157-186  updateVideoStatus: the status is written unconditionally,
\* the url when one is given
updateVideoStatus(id, status, url) ==
    /\ VideoPresent(id)
    /\ LET row == [dbVideos[id] EXCEPT
                      !.status = status,
                      !.url = IF url = "none" THEN @ ELSE url]
       IN /\ dbVideos' = [dbVideos EXCEPT ![id] = row]
          /\ userVideos' = MapUserVideos(userVideos, LocalVideo(id, row))
    /\ UNCHANGED <<hookVars, promptVars>>
    /\ UNCHANGED <<pollVars, siteVars, genVars, histVars>>

\* part_013:143-155  deleteVideo
deleteVideo(id) ==
    /\ VideoPresent(id)
    /\ dbVideos' = [dbVideos EXCEPT ![id] = [NoVideo EXCEPT !.status = "gone"]]
    /\ userVideos' = FilterVideos(userVideos, id)
    /\ UNCHANGED <<hookVars, promptVars>>
    /\ UNCHANGED <<pollVars, siteVars, genVars, histVars>>

VideoNext ==
    \/ \E pid \in PromptIds, g \in VideoStatus \cup {"none"}, t \in VideoUrls :
          createVideo(pid, g, IF t = "null" THEN "null" ELSE "task")
    \/ \E id \in VideoIds, st \in VideoStatus \cup {"none"}, u \in {"none", "url"} :
          updateVideo(id, st, u)
    \/ \E id \in VideoIds, st \in VideoStatus, u \in {"none", "url"} :
          updateVideoStatus(id, st, u)
    \/ \E id \in VideoIds : deleteVideo(id)

----------------------------------------------------------------------------
(* History page *)

\* HistoryPage.tsx:61-63  the limit passed to the three fetches
HistoryLimit == 100

\* the ids of the media rows present when the page is opened
MediaIds == {1, 2}

\* a list not fetched yet, fetched, or failed
Pending == [state |-> "pending", rows |-> <<>>]

\* no list shown before
NoPrevious == [user |-> "none", items |-> <<>>]

\* shownFor is the user whose load set the list shown now, previous the list
\* that load replaced and its user
HistoryIdle ==
    [pc |-> "idle", loading |-> TRUE, user |-> "none",
     userPrompts |-> Pending, userImages |-> Pending, userVideos |-> Pending,
     shownFor |-> "none", previous |-> NoPrevious]

\* the tables when the page is opened: every media row belongs to a prompt
\* HistoryPage.tsx:34-38  the page's initial state
PageInit ==
    /\ history = HistoryIdle
    /\ generationItems = <<>>
    /\ filterType = "all"
    /\ sortBy = "newest"
    /\ searchQuery = <<>>

\* the text of the prompts in the tables, by id
PromptTextOf(p) == IF p = 1 THEN <<"F", "o", "x">> ELSE <<"o", "x">>

\* a prompts row of the tables the page reads
HistoryPrompt(p, user) ==
    [user_id |-> user, status |-> "completed", prompt |-> PromptTextOf(p), created_at |-> p]

\* an images row and a videos row of the tables the page reads
HistoryImage(i, pid, time) == [id |-> i, prompt_id |-> pid, url |-> 0, created_at |-> time]

HistoryVideo(pid, time) ==
    [prompt_id |-> pid, status |-> "succeeded", url |-> "url", task_id |-> "null",
     created_at |-> time]

\* the tables when the page is opened: every media row belongs to a prompt
HistoryInit ==
    /\ PageInit
    /\ authUser \in Users \cup {"none"}
    /\ prompts = <<>>
    /\ \E owner \in [PromptIds -> Users] :
          dbPrompts = [p \in PromptIds |-> HistoryPrompt(p, owner[p])]
    /\ \E f \in [MediaIds -> PromptIds \cup {0}] :
          dbImages = {HistoryImage(i, f[i], i) : i \in {j \in MediaIds : f[j] # 0}}
    /\ \E pid \in PromptIds \cup {0} :
          dbVideos = [v \in VideoIds |->
                         IF v = 1 /\ pid # 0 THEN HistoryVideo(pid, 1) ELSE NoVideo]

\* order("created_at", { ascending: false }): the orders the database may
\* return the rows in, newest first; rows of equal created_at come in any order
RECURSIVE NewestFirst(_)
NewestFirst(rows) ==
    IF rows = {} THEN {<<>>}
    ELSE UNION {{<<r>> \o rest : rest \in NewestFirst(rows \ {r})} :
                   r \in {x \in rows : \A y \in rows : y.created_at <= x.created_at}}

\* .limit(limit)
Limit(rows, n) == SubSeq(rows, 1, IF Len(rows) < n THEN Len(rows) ELSE n)

\* part_011:64-76  getUserPrompts
getUserPrompts(userId, limit) ==
    {Limit(rows, limit) :
        rows \in NewestFirst({[id |-> p, user_id |-> dbPrompts[p].user_id,
                               prompt |-> dbPrompts[p].prompt,
                               created_at |-> dbPrompts[p].created_at] :
                                 p \in {q \in PromptIds : dbPrompts[q].user_id = userId}})}

\* ImageContext.tsx:78-93  getUserImages: images joined to the user's prompts
getUserImages(userId, limit) ==
    {Limit(rows, limit) :
        rows \in NewestFirst({[id |-> r.id, prompt_id |-> r.prompt_id,
                               created_at |-> r.created_at] :
                                 r \in {x \in dbImages :
                                           dbPrompts[x.prompt_id].user_id = userId}})}

\* part_013:82-96  getUserVideos: videos joined to the user's prompts
getUserVideos(userId, limit) ==
    {Limit(rows, limit) :
        rows \in NewestFirst({[id |-> v, prompt_id |-> dbVideos[v].prompt_id,
                               created_at |-> dbVideos[v].created_at] :
                                 v \in {x \in VideoIds :
                                           /\ dbVideos[x].status \in VideoStatus
                                           /\ dbPrompts[dbVideos[x].prompt_id].user_id = userId}})}

\* HistoryPage.tsx:50-57  loadHistory runs; without a user the list is emptied
loadHistory ==
    /\ history.pc # "fetching"
    /\ IF authUser = "none"
       THEN /\ generationItems' = <<>>
            /\ history' = [HistoryIdle EXCEPT !.pc = "done", !.loading = FALSE]
       ELSE /\ history' = [HistoryIdle EXCEPT !.pc = "fetching", !.user = authUser,
                                              !.shownFor = history.shownFor,
                                              !.previous = history.previous]
            /\ UNCHANGED generationItems
    /\ UNCHANGED <<viewVars, promptVars, hookVars, videoVars>>
    /\ UNCHANGED <<pollVars, siteVars, genVars>>

\* the answer of one of the three requests of Promise.all: the rows read
\* from the table at that moment, or an error
Fetched(rows, fails) ==
    IF fails THEN [state |-> "error", rows |-> <<>>] ELSE [state |-> "ok", rows |-> rows]

FetchPromptsAndDelete(fails) ==
    /\ history.pc = "fetching"
    /\ history.userPrompts.state = "pending"
    /\ \E rows \in getUserPrompts(history.user, HistoryLimit) :
          history' = [history EXCEPT !.userPrompts = Fetched(rows, fails)]
    /\ dbPrompts' = [p \in PromptIds |->
                        IF dbPrompts[p].user_id = history.user
                        THEN [user_id |-> "gone", status |-> "gone"]
                        ELSE dbPrompts[p]]
    /\ UNCHANGED <<generationItems, viewVars, prompts, authUser, hookVars, videoVars>>
    /\ UNCHANGED <<pollVars, siteVars, genVars>>

\* HistoryPage.tsx:61  getUserPrompts(user.id, 100) answers
FetchPrompts(fails) ==
    /\ history.pc = "fetching"
    /\ history.userPrompts.state = "pending"
    /\ \E rows \in getUserPrompts(history.user, HistoryLimit) :
          history' = [history EXCEPT !.userPrompts = Fetched(rows, fails)]
    /\ UNCHANGED <<generationItems, viewVars, promptVars, hookVars, videoVars>>
    /\ UNCHANGED <<pollVars, siteVars, genVars>>

\* HistoryPage.tsx:62  getUserImages(user.id, 100) answers
FetchImages(fails) ==
    /\ history.pc = "fetching"
    /\ history.userImages.state = "pending"
    /\ \E rows \in getUserImages(history.user, HistoryLimit) :
          history' = [history EXCEPT !.userImages = Fetched(rows, fails)]
    /\ UNCHANGED <<generationItems, viewVars, promptVars, hookVars, videoVars>>
    /\ UNCHANGED <<pollVars, siteVars, genVars>>

\* HistoryPage.tsx:63  getUserVideos(user.id, 100) answers
FetchVideos(fails) ==
    /\ history.pc = "fetching"
    /\ history.userVideos.state = "pending"
    /\ \E rows \in getUserVideos(history.user, HistoryLimit) :
          history' = [history EXCEPT !.userVideos = Fetched(rows, fails)]
    /\ UNCHANGED <<generationItems, viewVars, promptVars, hookVars, videoVars>>
    /\ UNCHANGED <<pollVars, siteVars, genVars>>

PromptAlwaysFound(userPrompts, pid) == TRUE

\* HistoryPage.tsx:68,75-76  promptMap.get(prompt_id) finds a prompt
PromptFound(userPrompts, pid) == \E i \in DOMAIN userPrompts : userPrompts[i].id = pid

\* what promptMap.get returns for an id that is no key of the map
Undefined == [id |-> 0, user_id |-> "none", prompt |-> <<>>, created_at |-> 0]

\* HistoryPage.tsx:68,75  promptMap.get(prompt_id)
PromptMapGet(userPrompts, pid) ==
    IF \E i \in DOMAIN userPrompts : userPrompts[i].id = pid
    THEN userPrompts[CHOOSE i \in DOMAIN userPrompts : userPrompts[i].id = pid]
    ELSE Undefined

\* HistoryPage.tsx:77-89,97-110  the item built from a media row and its prompt
GenerationItem(type, media, userPrompts) ==
    [id |-> media.id, type |-> type,
     prompt |-> PromptMapGet(userPrompts, media.prompt_id).prompt,
     createdAt |-> media.created_at,
     promptId |-> media.prompt_id,
     owner |-> PromptMapGet(userPrompts, media.prompt_id).user_id]

\* HistoryPage.tsx:74-91,94-112  forEach: the items of the rows whose prompt is found
RECURSIVE ItemsOf(_, _, _)
ItemsOf(type, rows, userPrompts) ==
    IF rows = <<>> THEN <<>>
    ELSE (IF PromptFound(userPrompts, Head(rows).prompt_id)
          THEN <<GenerationItem(type, Head(rows), userPrompts)>>
          ELSE <<>>) \o ItemsOf(type, Tail(rows), userPrompts)

\* HistoryPage.tsx:65-118  the continuation after Promise.all: the items are
\* built and set, or a failed request is logged; loading ends either way
HistoryProject ==
    /\ history.pc = "fetching"
    /\ "pending" \notin {history.userPrompts.state, history.userImages.state,
                         history.userVideos.state}
    /\ IF "error" \in {history.userPrompts.state, history.userImages.state,
                       history.userVideos.state}
       THEN /\ history' = [history EXCEPT !.pc = "failed", !.loading = FALSE]
            /\ UNCHANGED generationItems
       ELSE /\ history' = [history EXCEPT
                               !.pc = "done", !.loading = FALSE,
                               !.shownFor = history.user,
                               !.previous = [user |-> history.shownFor,
                                             items |-> generationItems]]
            /\ generationItems' =
                   ItemsOf("image", history.userImages.rows, history.userPrompts.rows)
                       \o ItemsOf("video", history.userVideos.rows, history.userPrompts.rows)
    /\ UNCHANGED <<viewVars, promptVars, hookVars, videoVars>>
    /\ UNCHANGED <<pollVars, siteVars, genVars>>

\* part_011:121-133, schema.sql:63,75  a prompt is deleted while the page
\* loads: its images and videos go with it (ON DELETE CASCADE)
PromptDeleted(id) ==
    /\ dbPrompts[id].user_id \in Users
    /\ dbPrompts' = [dbPrompts EXCEPT ![id] = [user_id |-> "gone", status |-> "gone"]]
    /\ dbImages' = {r \in dbImages : r.prompt_id # id}
    /\ dbVideos' = [v \in VideoIds |->
                       IF dbVideos[v].prompt_id = id
                       THEN [NoVideo EXCEPT !.status = "gone"]
                       ELSE dbVideos[v]]
    /\ UNCHANGED <<prompts, authUser, hookVars, userVideos, histVars>>
    /\ UNCHANGED <<pollVars, siteVars, storage, now, gen, calls>>

HistoryNext ==
    \/ loadHistory
    \/ \E fails \in BOOLEAN : FetchPrompts(fails)
    \/ \E fails \in BOOLEAN : FetchImages(fails)
    \/ \E fails \in BOOLEAN : FetchVideos(fails)
    \/ HistoryProject
    \/ \E id \in PromptIds : PromptDeleted(id)

----------------------------------------------------------------------------
(* History page: filters and order of the view *)

\* the creation times of the media rows of the viewed tables
ViewTimes == {1, 2}

\* the texts typed into the search field
SearchQueries == {<<>>, <<"f">>, <<"z">>}

\* the tables behind the viewed page: the prompts of one user, two images
\* and a video, some created at the same time
ViewInit ==
    /\ PageInit
    /\ authUser \in Users \cup {"none"}
    /\ prompts = <<>>
    /\ dbPrompts = [p \in PromptIds |-> HistoryPrompt(p, "u1")]
    /\ \E f \in [MediaIds -> PromptIds], t \in [MediaIds -> ViewTimes] :
          dbImages = {HistoryImage(i, f[i], t[i]) : i \in MediaIds}
    /\ \E t \in ViewTimes :
          dbVideos = [v \in VideoIds |-> IF v = 1 THEN HistoryVideo(1, t) ELSE NoVideo]

\* String.prototype.toLowerCase, on one character
LowerChar(c) ==
    CASE c = "F" -> "f"
      [] c = "O" -> "o"
      [] c = "X" -> "x"
      [] c = "Z" -> "z"
      [] OTHER -> c

KeepCase(text) == text

\* String.prototype.toLowerCase
toLowerCase(text) == [i \in DOMAIN text |-> LowerChar(text[i])]

\* String.prototype.includes
includes(text, part) ==
    \E k \in 0..(Len(text) - Len(part)) : SubSeq(text, k + 1, k + Len(part)) = part

\* HistoryPage.tsx:127-135  the filter callback: the type filter, then the
\* search filter (an empty query is falsy and filters nothing)
PassesFilter(item) ==
    /\ ~(filterType # "all" /\ item.type # filterType)
    /\ ~(searchQuery # <<>> /\
         ~includes(toLowerCase(item.prompt), toLowerCase(searchQuery)))

\* HistoryPage.tsx:136-148  the sort callback: negative when a comes first
CompareItems(a, b) ==
    CASE sortBy = "newest" -> b.createdAt - a.createdAt
      [] sortBy = "oldest" -> a.createdAt - b.createdAt
      [] OTHER -> b.createdAt - a.createdAt

\* Array.prototype.sort is stable: an item goes behind every item that does
\* not compare greater than it
InsertSorted(sorted, item) ==
    LET behind == {i \in DOMAIN sorted : CompareItems(sorted[i], item) > 0}
        at == IF behind = {} THEN Len(sorted) + 1
              ELSE CHOOSE i \in behind : \A j \in behind : i <= j
    IN SubSeq(sorted, 1, at - 1) \o <<item>> \o SubSeq(sorted, at, Len(sorted))

RECURSIVE SortItems(_)
SortItems(items) ==
    IF items = <<>> THEN <<>>
    ELSE InsertSorted(SortItems(SubSeq(items, 1, Len(items) - 1)), items[Len(items)])

\* HistoryPage.tsx:126-148  filteredHistory, computed at every render
filteredHistory == SortItems(SelectSeq(generationItems, PassesFilter))

\* HistoryPage.tsx:34  setFilterType
setFilterType(type) ==
    /\ filterType # type
    /\ filterType' = type
    /\ UNCHANGED <<history, generationItems, sortBy, searchQuery>>
    /\ UNCHANGED <<promptVars, hookVars, videoVars, pollVars, siteVars, genVars>>

\* HistoryPage.tsx:35  setSortBy
setSortBy(order) ==
    /\ sortBy # order
    /\ sortBy' = order
    /\ UNCHANGED <<history, generationItems, filterType, searchQuery>>
    /\ UNCHANGED <<promptVars, hookVars, videoVars, pollVars, siteVars, genVars>>

\* HistoryPage.tsx:36  setSearchQuery
setSearchQuery(query) ==
    /\ searchQuery # query
    /\ searchQuery' = query
    /\ UNCHANGED <<history, generationItems, filterType, sortBy>>
    /\ UNCHANGED <<promptVars, hookVars, videoVars, pollVars, siteVars, genVars>>

ViewNext ==
    \/ loadHistory
    \/ \E fails \in BOOLEAN : FetchPrompts(fails)
    \/ \E fails \in BOOLEAN : FetchImages(fails)
    \/ \E fails \in BOOLEAN : FetchVideos(fails)
    \/ HistoryProject
    \/ \E type \in {"all", "image", "video"} : setFilterType(type)
    \/ \E order \in {"newest", "oldest"} : setSortBy(order)
    \/ \E query \in SearchQueries : setSearchQuery(query)

----------------------------------------------------------------------------
(* The providers' caches of the signed-in user's rows *)

Tables == {"images", "videos", "prompts"}

\* part_011:64, ImageContext.tsx:78, part_013:82  limit = 50
DefaultLimit == 50

CacheInit ==
    /\ authUser = "none"
    /\ prompts = <<>>
    /\ images = <<>>
    /\ userVideos = <<>>
    /\ refreshes = [t \in Tables |-> {}]
    /\ dbPrompts = [p \in PromptIds |-> HistoryPrompt(p, IF p = 1 THEN "u1" ELSE "u2")]
    /\ dbImages = {HistoryImage(i, i, i) : i \in MediaIds}
    /\ dbVideos = [v \in VideoIds |-> IF v \in MediaIds THEN HistoryVideo(v, v) ELSE NoVideo]

\* ImageContext.tsx:184-188, part_013:204-208, part_011:175-179  refreshUserX
\* up to its await: nothing without a user, else the query for the user's rows
StartRefresh(table, user) ==
    IF user = "none" THEN refreshes
    ELSE [refreshes EXCEPT ![table] = @ \cup {user}]

\* part_010:51-61, ImageContext.tsx:40-48, part_013:42-50, part_011:40-48
\* the auth user changes and the three providers' effects run: with a user
\* each starts a refresh, without one each empties its cache
onAuthUserChange(user) ==
    /\ authUser # user
    /\ authUser' = user
    /\ IF user = "none"
       THEN /\ images' = <<>>
            /\ userVideos' = <<>>
            /\ prompts' = <<>>
            /\ UNCHANGED refreshes
       ELSE /\ refreshes' = [t \in Tables |-> refreshes[t] \cup {user}]
            /\ UNCHANGED <<images, userVideos, prompts>>
    /\ UNCHANGED <<pollVars, dbPrompts, genVars, hookVars, dbVideos, histVars>>
    /\ UNCHANGED <<proxyVars, creditVars, navVars>>

\* ImageContext.tsx:183-188, part_013:203-208, part_011:174-179  a component
\* calls refreshUserImages / refreshUserVideos / refreshUserPrompts
refreshUser(table) ==
    /\ refreshes' = StartRefresh(table, authUser)
    /\ UNCHANGED <<images, promptVars, videoVars>>
    /\ UNCHANGED <<pollVars, genVars, hookVars, histVars, proxyVars, creditVars, navVars>>

\* the rows the query of a table may return for a user
UserRows(table, user) ==
    IF table = "images" THEN getUserImages(user, DefaultLimit)
    ELSE IF table = "videos" THEN getUserVideos(user, DefaultLimit)
    ELSE getUserPrompts(user, DefaultLimit)

\* ImageContext.tsx:188-194, part_013:208-214, part_011:179-185  the
\* continuation of a refresh after its await: setX(rows), or the error logged
RefreshDone(table, user, fails) ==
    /\ user \in refreshes[table]
    /\ refreshes' = [refreshes EXCEPT ![table] = @ \ {user}]
    /\ \E rows \in UserRows(table, user) :
         /\ images' = IF table = "images" /\ ~fails THEN rows ELSE images
         /\ userVideos' = IF table = "videos" /\ ~fails THEN rows ELSE userVideos
         /\ prompts' = IF table = "prompts" /\ ~fails THEN rows ELSE prompts
    /\ UNCHANGED <<authUser, dbPrompts, dbVideos>>
    /\ UNCHANGED <<pollVars, genVars, hookVars, histVars, proxyVars, creditVars, navVars>>

CacheNext ==
    \/ \E user \in Users \cup {"none"} : onAuthUserChange(user)
    \/ \E table \in Tables : refreshUser(table)
    \/ \E table \in Tables, user \in Users, fails \in BOOLEAN :
          RefreshDone(table, user, fails)

----------------------------------------------------------------------------
(* Credits of the UserProvider *)

\* the largest balance a user starts with
MaxStart == 2

\* the largest amount of one call
MaxAmount == 2

\* the number of deductCredits / addCredits calls of a run
MaxCreditCalls == 2

Amounts == 1..MaxAmount

\* part_012:33  useState<User | null>(null)
NoUser == [present |-> FALSE, credits |-> 0]

UserRow(credits) == [present |-> TRUE, credits |-> credits]

\* part_012:33-34, schema.sql:42  the UserProvider is mounted for user u1;
\* the row holds a balance that satisfies the CHECK
CreditInit ==
    /\ authUser = "u1"
    /\ prompts = <<>>
    /\ dbCredits \in 0..MaxStart
    /\ startCredits = dbCredits
    /\ currentUser = NoUser
    /\ creditCalls = <<>>

\* part_012:165-170  refreshCurrentUser
refreshCurrentUser ==
    /\ authUser # "none"
    /\ currentUser' = UserRow(dbCredits)
    /\ UNCHANGED <<dbCredits, creditCalls, startCredits>>
    /\ UNCHANGED <<pollVars, promptVars, genVars, appVars, proxyVars, cacheVars, navVars>>

\* part_012:172-183  deductCredits up to its await: it throws without a
\* current user, returns false when the local balance is below the amount,
\* and otherwise calls updateUserCredits with the local balance less the amount
deductCredits(amount) ==
    /\ Len(creditCalls) < MaxCreditCalls
    /\ creditCalls' = Append(creditCalls,
           IF ~currentUser.present
           THEN [kind |-> "deduct", amount |-> amount, newCredits |-> 0, stage |-> "threw"]
           ELSE IF currentUser.credits < amount
           THEN [kind |-> "deduct", amount |-> amount, newCredits |-> 0,
                 stage |-> "refused"]
           ELSE [kind |-> "deduct", amount |-> amount,
                 newCredits |-> currentUser.credits - amount, stage |-> "updating"])
    /\ UNCHANGED <<dbCredits, currentUser, startCredits>>
    /\ UNCHANGED <<pollVars, promptVars, genVars, appVars, proxyVars, cacheVars, navVars>>

\* part_012:185-192  addCredits up to its await
addCredits(amount) ==
    /\ Len(creditCalls) < MaxCreditCalls
    /\ creditCalls' = Append(creditCalls,
           IF ~currentUser.present
           THEN [kind |-> "add", amount |-> amount, newCredits |-> 0, stage |-> "threw"]
           ELSE [kind |-> "add", amount |-> amount,
                 newCredits |-> currentUser.credits + amount, stage |-> "updating"])
    /\ UNCHANGED <<dbCredits, currentUser, startCredits>>
    /\ UNCHANGED <<pollVars, promptVars, genVars, appVars, proxyVars, cacheVars, navVars>>

\* schema.sql:42  CHECK (credits_remaining >= 0)
CreditsCheck(credits) == credits >= 0

\* part_012:141-162  updateUserCredits of call c: the update writes the
\* given balance and the local copy takes the returned row, or the update
\* fails (an error, or the CHECK) and the call throws
updateUserCredits(c, fails) ==
    /\ c \in DOMAIN creditCalls
    /\ creditCalls[c].stage = "updating"
    /\ IF fails \/ ~CreditsCheck(creditCalls[c].newCredits)
       THEN /\ creditCalls' = [creditCalls EXCEPT ![c].stage = "failed"]
            /\ UNCHANGED <<dbCredits, currentUser>>
       ELSE /\ creditCalls' = [creditCalls EXCEPT ![c].stage = "done"]
            /\ dbCredits' = creditCalls[c].newCredits
            /\ currentUser' = UserRow(creditCalls[c].newCredits)
    /\ UNCHANGED startCredits
    /\ UNCHANGED <<pollVars, promptVars, genVars, appVars, proxyVars, cacheVars, navVars>>

CreditNext ==
    \/ refreshCurrentUser
    \/ \E amount \in Amounts : deductCredits(amount)
    \/ \E amount \in Amounts : addCredits(amount)
    \/ \E c \in 1..MaxCreditCalls, fails \in BOOLEAN : updateUserCredits(c, fails)

----------------------------------------------------------------------------
(* The app shell: AppContent, Navigation and the AuthProvider's loading flag *)

Sections == {"home", "image", "video", "history", "profile"}

\* App.tsx:90-93  needsAuth
needsAuth(section) == section \in {"image", "video", "history", "profile"}

\* App.tsx:51-85  renderActiveSection: what the main area shows
RenderSection(loading, login, section, user) ==
    IF loading THEN "loading"
    ELSE IF login \/ (needsAuth(section) /\ user = "none") THEN "login"
    ELSE IF section = "home" THEN "home"
    ELSE IF user # "none" THEN section ELSE "home"

renderActiveSection == RenderSection(authLoading, showLoginPage, activeSection, authUser)

ShowNavigationAlways(login, section, user) == TRUE

\* App.tsx:96  shouldShowNavigation
ShowNavigation(login, section, user) ==
    ~login /\ ~(needsAuth(section) /\ user = "none")

shouldShowNavigation == ShowNavigation(showLoginPage, activeSection, authUser)

\* part_004:21-22  useState(false) twice
MenusClosed == [user |-> FALSE, mobile |-> FALSE]

\* the Navigation keeps its state while it stays mounted and starts from
\* closed menus when it is mounted again
MenusAfter(m, shown) == IF shown THEN m ELSE MenusClosed

\* App.tsx:18-20, part_010:29-31  the state after the first render
NavInit ==
    /\ authUser = "none"
    /\ prompts = <<>>
    /\ authLoading = TRUE
    /\ activeSection = "home"
    /\ showLoginPage = FALSE
    /\ menus = MenusClosed
    /\ logout = "idle"

\* part_010:34-61  getInitialSession resolves or onAuthStateChange fires: the
\* user of the session, or none, and loading false
onAuthStateChange(user) ==
    /\ authLoading \/ authUser # user
    /\ authUser' = user
    /\ authLoading' = FALSE
    /\ menus' = MenusAfter(menus, ShowNavigation(showLoginPage, activeSection, user))
    /\ UNCHANGED <<activeSection, showLoginPage, logout, dbPrompts, prompts>>
    /\ UNCHANGED <<pollVars, genVars, appVars, proxyVars, cacheVars, creditVars>>

\* App.tsx:25-28  handleSectionChange
handleSectionChange(section) ==
    /\ activeSection' = section
    /\ showLoginPage' = FALSE

\* part_004:65-72, App.tsx:33-35  handleNavClick on an item of the bar (the
\* buttons are disabled while loading, part_004:149)
handleNavClick(item) ==
    /\ shouldShowNavigation
    /\ ~authLoading
    /\ IF needsAuth(item) /\ authUser = "none"
       THEN /\ showLoginPage' = TRUE
            /\ menus' = MenusClosed
            /\ UNCHANGED activeSection
       ELSE /\ handleSectionChange(item)
            /\ menus' = [menus EXCEPT !.mobile = FALSE]
    /\ UNCHANGED <<authUser, authLoading, logout, dbPrompts, prompts>>
    /\ UNCHANGED <<pollVars, genVars, appVars, proxyVars, cacheVars, creditVars>>

\* part_004:227-231, App.tsx:33-35  the Sign In button: onAuthRequired
handleAuthRequired ==
    /\ shouldShowNavigation
    /\ ~authLoading
    /\ authUser = "none"
    /\ showLoginPage' = TRUE
    /\ menus' = MenusClosed
    /\ UNCHANGED <<activeSection, authUser, authLoading, logout, dbPrompts, prompts>>
    /\ UNCHANGED <<pollVars, genVars, appVars, proxyVars, cacheVars, creditVars>>

\* Home.tsx:24-38,65-71  a button of the Home page: onNavigate(section)
onNavigate(section) ==
    /\ renderActiveSection = "home"
    /\ handleSectionChange(section)
    /\ menus' = MenusAfter(menus, ShowNavigation(FALSE, section, authUser))
    /\ UNCHANGED <<authUser, authLoading, logout, dbPrompts, prompts>>
    /\ UNCHANGED <<pollVars, genVars, appVars, proxyVars, cacheVars, creditVars>>

\* App.tsx:40-46, part_014:27-31,43-45  handleAuthSuccess, called by the
\* mounted LoginPage
handleAuthSuccess ==
    /\ renderActiveSection = "login"
    /\ showLoginPage' = FALSE
    /\ activeSection' = IF activeSection = "home" THEN "profile" ELSE activeSection
    /\ menus' = MenusClosed
    /\ UNCHANGED <<authUser, authLoading, logout, dbPrompts, prompts>>
    /\ UNCHANGED <<pollVars, genVars, appVars, proxyVars, cacheVars, creditVars>>

\* part_004:89-98  toggleUserMenu / toggleMobileMenu
toggleMenu(which) ==
    /\ shouldShowNavigation
    /\ which = "user" => authUser # "none"
    /\ menus' = [menus EXCEPT ![which] = ~@]
    /\ UNCHANGED <<activeSection, showLoginPage, authUser, authLoading, logout>>
    /\ UNCHANGED <<dbPrompts, prompts>>
    /\ UNCHANGED <<pollVars, genVars, appVars, proxyVars, cacheVars, creditVars>>

\* part_004:77-79  handleLogout up to its await of signOut
handleLogout ==
    /\ shouldShowNavigation
    /\ authUser # "none"
    /\ logout = "idle"
    /\ logout' = "awaiting"
    /\ UNCHANGED <<activeSection, showLoginPage, authUser, authLoading, menus>>
    /\ UNCHANGED <<dbPrompts, prompts>>
    /\ UNCHANGED <<pollVars, genVars, appVars, proxyVars, cacheVars, creditVars>>

\* part_004:79-84  signOut has settled: on success the user menu is closed
\* and the app goes to home, on an error nothing changes
LogoutSettled(fails) ==
    /\ logout = "awaiting"
    /\ logout' = "idle"
    /\ IF fails
       THEN UNCHANGED <<activeSection, showLoginPage, menus>>
       ELSE /\ handleSectionChange("home")
            /\ menus' = [menus EXCEPT !.user = FALSE]
    /\ UNCHANGED <<authUser, authLoading, dbPrompts, prompts>>
    /\ UNCHANGED <<pollVars, genVars, appVars, proxyVars, cacheVars, creditVars>>

NavNext ==
    \/ \E user \in Users \cup {"none"} : onAuthStateChange(user)
    \/ \E item \in Sections : handleNavClick(item)
    \/ handleAuthRequired
    \/ \E section \in {"image", "video", "history"} : onNavigate(section)
    \/ handleAuthSuccess
    \/ \E which \in {"user", "mobile"} : toggleMenu(which)
    \/ handleLogout
    \/ \E fails \in BOOLEAN : LogoutSettled(fails)

----------------------------------------------------------------------------
(* Specifications *)

PollQuiet ==
    /\ dbVideo = "queued"
    /\ videos = "absent"
    /\ timerActive = FALSE
    /\ queries = [q \in QueryIds |-> NoQuery]
    /\ callbacks = <<>>
    /\ pollErrors = 0
    /\ cancelled = FALSE

PromptQuiet ==
    /\ prompts = <<>>
    /\ authUser = "none"

GenQuiet ==
    /\ dbImages = {}
    /\ storage = {}
    /\ now = 0
    /\ gen = GenIdle
    /\ calls = <<>>

PromptTableEmpty == dbPrompts = [p \in PromptIds |-> NoRow]

HookQuiet ==
    /\ hook = [k \in Kinds |-> HookIdle]
    /\ api = [k \in Kinds |-> ApiIdle]
    /\ apiCalls = 0

VideoQuiet ==
    /\ dbVideos = [v \in VideoIds |-> NoVideo]
    /\ userVideos = <<>>

HistoryQuiet == PageInit

AppQuiet == HookQuiet /\ VideoQuiet /\ HistoryQuiet

ProxyQuiet == ProxyInit

CacheQuiet ==
    /\ images = <<>>
    /\ refreshes = [t \in Tables |-> {}]

CreditQuiet ==
    /\ dbCredits = 0
    /\ startCredits = 0
    /\ currentUser = NoUser
    /\ creditCalls = <<>>

NavQuiet ==
    /\ authLoading = FALSE
    /\ activeSection = "home"
    /\ showLoginPage = FALSE
    /\ menus = MenusClosed
    /\ logout = "idle"

SiteQuiet == ProxyQuiet /\ CacheQuiet /\ CreditQuiet /\ NavQuiet

BaseQuiet == PollQuiet /\ PromptQuiet /\ PromptTableEmpty /\ GenQuiet /\ AppQuiet

PollSpecInit == PollInit /\ PromptQuiet /\ GenQuiet /\ PromptTableEmpty /\ AppQuiet /\ SiteQuiet

PollSpec == PollSpecInit /\ [][PollNext]_vars

PromptSpecInit == PromptInit /\ PollQuiet /\ GenQuiet /\ AppQuiet /\ SiteQuiet

PromptSpec == PromptSpecInit /\ [][PromptNext]_vars

GenSpecInit == GenInit /\ PromptQuiet /\ PollQuiet /\ AppQuiet /\ SiteQuiet

GenSpec == GenSpecInit /\ [][GenNext]_vars

HookSpecInit == HookInit /\ PollQuiet /\ GenQuiet /\ HistoryQuiet /\ SiteQuiet

HookSpec == HookSpecInit /\ [][HookNext]_vars

VideoSpecInit == VideoInit /\ HookQuiet /\ PollQuiet /\ GenQuiet /\ HistoryQuiet /\ SiteQuiet

VideoSpec == VideoSpecInit /\ [][VideoNext]_vars

\* the pipeline, the hooks and the poller at rest, whatever the tables hold
GenRest ==
    /\ storage = {}
    /\ now = 0
    /\ gen = GenIdle
    /\ calls = <<>>

HistoryRest == GenRest /\ userVideos = <<>>

HistorySpecInit == HistoryInit /\ HookQuiet /\ PollQuiet /\ HistoryRest /\ SiteQuiet

HistorySpec == HistorySpecInit /\ [][HistoryNext]_vars

ViewSpecInit == ViewInit /\ HookQuiet /\ PollQuiet /\ HistoryRest /\ SiteQuiet

ViewSpec == ViewSpecInit /\ [][ViewNext]_vars

ProxySpecInit == ProxyInit /\ BaseQuiet /\ CacheQuiet /\ CreditQuiet /\ NavQuiet

CacheSpecInit ==
    /\ CacheInit
    /\ PollQuiet /\ GenRest /\ HookQuiet /\ HistoryQuiet
    /\ ProxyQuiet /\ CreditQuiet /\ NavQuiet

\* everything but the prompts provider and the auth user at rest
OthersQuiet == PollQuiet /\ PromptTableEmpty /\ GenQuiet /\ AppQuiet /\ ProxyQuiet /\ CacheQuiet

CreditSpecInit == CreditInit /\ OthersQuiet /\ NavQuiet

CreditSpec == CreditSpecInit /\ [][CreditNext]_vars

NavSpecInit == NavInit /\ OthersQuiet /\ CreditQuiet

NavSpec == NavSpecInit /\ [][NavNext]_vars

CacheSpec == CacheSpecInit /\ [][CacheNext]_vars

ProxySpec == ProxySpecInit /\ [][ProxyNext]_vars

----------------------------------------------------------------------------
(* Claims about the video poller, checked under PollSpec *)

\* a poll has handed a terminal video to the continuation
TerminalObserved == \E i \in DOMAIN callbacks : callbacks[i] \in TerminalStatus

NumTerminalCallbacks ==
    Cardinality({i \in DOMAIN callbacks : callbacks[i] \in TerminalStatus})

\* C1: once a poll has observed a terminal status (succeeded, failed or
\* cancelled) the interval timer is no longer scheduled and no further
\* getVideoById query is issued, whatever ticks and completions interleave.
C1_NoQueryAfterTerminal ==
    [][TerminalObserved' =>
          /\ ~timerActive'
          /\ (TerminalObserved => NumIssued' = NumIssued)]_vars

\* C1 witness: a terminal status was observed while a query issued by an
\* earlier overlapping tick is still in flight.
C1_Witness ==
    /\ TerminalObserved
    /\ \E q \in QueryIds : queries[q].stage \in {"sent", "read"}
    /\ NumIssued < MaxTicks

\* C2: the callback is invoked exactly once with a terminal-status video,
\* never twice, even when several poll queries overlap.
C2_TerminalCallbackOnce == NumTerminalCallbacks <= 1

\* C3: the callback is not invoked on a poll whose status equals the status
\* seen by the previous poll; it fires only when the status differs.
C3_CallbackOnlyOnChange ==
    \A i \in 1..(Len(callbacks) - 1) : callbacks[i] # callbacks[i + 1]

\* C4: after a status query has thrown while the video is not terminal (and
\* the caller has not cancelled), polling continues: the timer stays scheduled
\* so that a later tick queries again.
C4_PollingContinuesAfterError ==
    (/\ pollErrors > 0
     /\ dbVideo \in {"queued", "running"}
     /\ ~cancelled
     /\ ~TerminalObserved) => timerActive

\* C5: once the caller has invoked the cleanup function before a terminal
\* status was observed, the poller has no further side effect: no new query,
\* no update of the local videos state and no callback.
C5_NoSideEffectsAfterCancel ==
    [][(cancelled /\ ~TerminalObserved) =>
          /\ callbacks' = callbacks
          /\ videos' = videos
          /\ NumIssued' = NumIssued]_vars

----------------------------------------------------------------------------
(* Claims about the prompt status, checked under PromptSpec *)

PromptRank(st) == CASE st = "pending" -> 0
                    [] st = "processing" -> 1
                    [] OTHER -> 2

\* a status write that keeps the order pending, processing, completed|failed
ForwardStatus(a, b) == a = b \/ PromptRank(a) < PromptRank(b)

\* C6: no operation moves a Prompt row backward or out of completed/failed:
\* every write of a status keeps the order pending, processing, completed|failed.
C6_PromptStatusMonotonic ==
    [][\A p \in PromptIds :
          (dbPrompts[p].status \in PromptStatus /\ dbPrompts'[p].status \in PromptStatus)
              => ForwardStatus(dbPrompts[p].status, dbPrompts'[p].status)]_vars

----------------------------------------------------------------------------
(* Claims about generateImage, checked under GenSpec *)

\* the images rows that belong to a prompt
RowsOf(pid) == {r \in dbImages : r.prompt_id = pid}

\* the items of the response whose download, upload and insert all succeed
OkItems == {i \in DOMAIN gen.data : gen.data[i] = "ok"}

GenReturned == gen.pc = "done"

\* C7: whatever subset of the returned items fails at download, upload or
\* insert, the others are still persisted: when the call ends, the number of
\* images rows of its prompt equals the number of items whose three steps all
\* succeeded, and the call succeeds (with that many images) iff there is one.
C7_ItemFailuresIsolated ==
    (GenReturned /\ gen.fetched = "ok") =>
        /\ Cardinality(RowsOf(gen.promptId)) = Cardinality(OkItems)
        /\ gen.result.ok <=> OkItems # {}
        /\ gen.result.ok => Len(gen.result.images) = Cardinality(OkItems)

\* C7 witness: three items, the download of the second one failed, the call
\* has ended with success and two rows.
C7_Witness ==
    /\ GenReturned
    /\ gen.data = <<"ok", "dlfail", "ok">>
    /\ gen.result.ok
    /\ Cardinality(RowsOf(gen.promptId)) = 2

\* C8: when the call has persisted at least one images row, its prompt row
\* has status completed at return and the result carries the prompt id and
\* the persisted images.
C8_PromptCompletedOnSuccess ==
    (GenReturned /\ gen.promptId # 0 /\ RowsOf(gen.promptId) # {}) =>
        /\ dbPrompts[gen.promptId].status = "completed"
        /\ gen.result.ok
        /\ gen.result.promptId = gen.promptId
        /\ gen.result.images = gen.savedImages

\* C9: when the API call succeeded but no images row was persisted, the call
\* fails with a no-output error, its prompt row has status failed and the
\* prompt has no images row.
C9_NoOutputMarksFailed ==
    (GenReturned /\ gen.fetched = "ok" /\ RowsOf(gen.promptId) = {}) =>
        /\ ~gen.result.ok
        /\ gen.result.error \in {NoImageData, NoneSaved}
        /\ dbPrompts[gen.promptId].status = "failed"

\* C10: when the upstream generation call answered with a non-2xx status,
\* the prompt row is marked failed, no images row exists for it and the call
\* fails with an error carrying the upstream status and message.
C10_UpstreamErrorMarksFailed ==
    (GenReturned /\ gen.fetched = "http" /\ gen.upstream.kind = "error") =>
        /\ dbPrompts[gen.promptId].status = "failed"
        /\ RowsOf(gen.promptId) = {}
        /\ ~gen.result.ok
        /\ gen.result.error[2] = gen.upstream.status
        /\ gen.result.error[4][2] = gen.upstream.status
        /\ gen.result.error[4][4] = gen.upstream.text

\* C11: when the prompts insert at the start of the call fails, the call
\* fails and nothing else happens: the only request sent is that insert; the
\* generation API is not called, nothing is downloaded or uploaded and no
\* images row is inserted.
C11_PromptInsertFailureIsFatal ==
    (Len(calls) >= 1 /\ gen.promptId = 0) =>
        /\ GenReturned
        /\ gen.result = [ok |-> FALSE, error |-> PromptInsertFailed]
        /\ calls = << <<"insertPrompt", 0>> >>
        /\ gen.fetched = "none"
        /\ gen.savedImages = <<>>

\* C11 witness: the insert of a non-empty prompt failed and the call has ended.
C11_Witness ==
    /\ GenReturned
    /\ gen.text # <<>>
    /\ gen.result = [ok |-> FALSE, error |-> PromptInsertFailed]

\* the requests made for the items, after the insert and the generation call
ItemCalls == SubSeq(calls, 3, Len(calls))

\* the step that may follow the step a: the next step of the same item, or
\* the download of a later item
FollowsInOrder(a, b) ==
    \/ /\ b[2] = a[2]
       /\ <<a[1], b[1]>> \in {<<"download", "upload">>, <<"upload", "insertImage">>}
    \/ /\ b[2] > a[2]
       /\ b[1] = "download"

\* C12: within one call the steps occur strictly in order: the prompts insert
\* comes first, then the generation call, then the items one at a time in
\* index order, each at most once, with download before upload before insert.
C12_StepsInOrder ==
    /\ Len(calls) >= 1 => calls[1] = <<"insertPrompt", 0>>
    /\ Len(calls) >= 2 => calls[2] = <<"fetch", 0>>
    /\ Len(calls) >= 3 => calls[3][1] = "download"
    /\ \A k \in 1..(Len(ItemCalls) - 1) : FollowsInOrder(ItemCalls[k], ItemCalls[k + 1])
    /\ \A k \in DOMAIN ItemCalls : ItemCalls[k][2] \in 0..(Len(gen.data) - 1)

\* C12 witness: a call that has ended after processing three items completely.
C12_Witness ==
    /\ GenReturned
    /\ Len(calls) = 11

\* the files of a prompt's item in the bucket
FilesOf(pid, index) == {f \in storage : f[1] = pid /\ f[2] = index + 1}

\* the images rows of a prompt's item
RowsOfItem(pid, index) == {r \in RowsOf(pid) : r.url = index}

\* C13: a call that got past the prompts insert has created one prompts row
\* and at most one images row per item, and each item is all-or-nothing: its
\* uploaded file and its images row are both present or both absent.
C13_ItemAllOrNothing ==
    (GenReturned /\ gen.promptId # 0) =>
        /\ dbPrompts[gen.promptId] # NoRow
        /\ \A i \in 0..(Len(gen.data) - 1) :
              /\ Cardinality(RowsOfItem(gen.promptId, i)) <= 1
              /\ (FilesOf(gen.promptId, i) # {}) <=> (RowsOfItem(gen.promptId, i) # {})

\* C14: the owned-storage URL of an entry is assigned once and only after the
\* download and the upload of that item succeeded, and the persisted images
\* row carries both the external URL and the owned URL.
C14_RowCarriesOwnedUrl ==
    /\ \A k \in DOMAIN gen.savedImages :
          /\ gen.savedImages[k].bucketUrl \in storage
          /\ gen.data[gen.savedImages[k].url + 1] = "ok"
    /\ \A r \in RowsOf(gen.promptId) :
          /\ "url" \in DOMAIN r
          /\ "bucketUrl" \in DOMAIN r

\* C15: a generation request whose prompt text is empty or only whitespace
\* ends in a validation failure without the pipeline being run: no prompts
\* row is created and the generation API is not called.
C15_BlankPromptRejected ==
    (gen.pc # "idle" /\ Trim(gen.text) = <<>>) =>
        /\ gen.promptId = 0
        /\ \A k \in DOMAIN calls : calls[k][1] # "fetch"
        /\ GenReturned => ~gen.result.ok

----------------------------------------------------------------------------
(* Claims about the generation hooks, checked under HookSpec *)

\* a step in which the hook's generate function of kind k ran up to its
\* return or its await (any change of the hook's state but the continuations
\* after an await)
HookCalled(k) ==
    /\ hook'[k] # hook[k]
    /\ ~(hook[k].pc # "idle" /\ hook'[k].pc # hook[k].pc)

\* C16: when no user is signed in, a call of the hook's generateImage or
\* generateVideo writes nothing: the API function is not called, no prompts,
\* images or videos row is created, the hook returns null with the
\* authentication error set, and loading and the progress step stay as they were.
C16_UnauthenticatedCallWritesNothing ==
    [][\A k \in Kinds :
          (authUser = "none" /\ HookCalled(k)) =>
              /\ apiCalls' = apiCalls
              /\ api' = api
              /\ dbPrompts' = dbPrompts
              /\ dbImages' = dbImages
              /\ dbVideos' = dbVideos
              /\ hook'[k].ret = "null"
              /\ hook'[k].error = AuthError(k)
              /\ hook'[k].loading = hook[k].loading
              /\ hook'[k].step = hook[k].step]_vars

\* C16 witness: with nobody signed in the video hook was called while an
\* earlier call was still loading; it returned null with the error set.
C16_Witness ==
    /\ authUser = "none"
    /\ hook["video"].ret = "null"
    /\ hook["video"].error = AuthError("video")
    /\ hook["video"].loading
    /\ hook["image"].error = AuthError("image")

\* C17: video generation hands control back once the submission is accepted:
\* the hook is never still waiting for the API function while the submitted
\* task is queued or running.
C17_ReturnsOnAcceptance ==
    hook["video"].pc = "awaiting" => api["video"].task \notin {"queued", "running"}

\* C18: once a video submission is accepted there is a videos row for its
\* prompt with status queued, the task id set and no url, and the prompt
\* has status processing.
C18_QueuedRowOnAcceptance ==
    api["video"].stage = "accepted" =>
        /\ \E v \in VideoIds :
              /\ dbVideos[v].prompt_id = api["video"].promptId
              /\ dbVideos[v].status = "queued"
              /\ dbVideos[v].task_id # "null"
              /\ dbVideos[v].url = "null"
        /\ dbPrompts[api["video"].promptId].status = "processing"

----------------------------------------------------------------------------
(* Claims about the videos table, checked under VideoSpec *)

\* C19: the statuses written to a videos row by updateVideoStatus and
\* updateVideo follow queued, running, then succeeded, failed or cancelled:
\* a row in a terminal status keeps it and a running row never returns to queued.
C19_VideoStatusMonotonic ==
    [][\A v \in VideoIds :
          (dbVideos[v].status \in VideoStatus /\ dbVideos'[v].status \in VideoStatus) =>
              /\ dbVideos[v].status \in TerminalStatus =>
                     dbVideos'[v].status = dbVideos[v].status
              /\ dbVideos[v].status = "running" => dbVideos'[v].status # "queued"]_vars

----------------------------------------------------------------------------
(* Claims about the history page, checked under HistorySpec *)

\* the media rows the load fetched, each with its type
FetchedMedia ==
    {<<"image", history.userImages.rows[i]>> : i \in DOMAIN history.userImages.rows}
        \cup {<<"video", history.userVideos.rows[i]>> : i \in DOMAIN history.userVideos.rows}

\* the ids of the prompts the load fetched
FetchedPromptIds == {history.userPrompts.rows[i].id : i \in DOMAIN history.userPrompts.rows}

\* the three requests of the load have all answered without an error
AllFetched ==
    /\ history.pc \in {"done", "failed"}
    /\ history.user # "none"
    /\ {history.userPrompts.state, history.userImages.state, history.userVideos.state} = {"ok"}

\* C20: after a load whose requests succeeded, the items shown are exactly
\* the fetched images and videos whose prompt_id is the id of a fetched
\* prompt, each joined to that prompt of the owner; a row whose prompt is
\* not among them is left out, and the load does not end in an error.
C20_HistoryIsJoinOfFetchedRows ==
    AllFetched =>
        /\ history.pc = "done"
        /\ ~history.loading
        /\ {<<generationItems[i].type, generationItems[i].id, generationItems[i].promptId>> :
                i \in DOMAIN generationItems}
             = {<<m[1], m[2].id, m[2].prompt_id>> :
                   m \in {x \in FetchedMedia : x[2].prompt_id \in FetchedPromptIds}}
        /\ Cardinality({<<generationItems[i].type, generationItems[i].id>> :
                           i \in DOMAIN generationItems}) = Len(generationItems)
        /\ \A i \in DOMAIN generationItems :
              /\ generationItems[i].promptId \in FetchedPromptIds
              /\ generationItems[i].owner = history.user

\* C20 witness: a load ended that fetched a media row whose prompt it did not
\* fetch, and another one that is shown.
C20_Witness ==
    /\ AllFetched
    /\ \E m \in FetchedMedia : m[2].prompt_id \notin FetchedPromptIds
    /\ generationItems # <<>>

----------------------------------------------------------------------------
(* Claims about the history view, checked under ViewSpec *)

\* the text contains the query when letter case is ignored
ContainsIgnoringCase(text, query) ==
    \E k \in 0..(Len(text) - Len(query)) :
        \A j \in 1..Len(query) : LowerChar(text[k + j]) = LowerChar(query[j])

\* an item passes the active filters
Matches(item) ==
    /\ filterType = "all" \/ item.type = filterType
    /\ ContainsIgnoringCase(item.prompt, searchQuery)

\* C21: the history view holds exactly the loaded items that pass the active
\* filters (the type equals the selected one unless "all"; the prompt text
\* contains the search query, whatever the letter case), newest first, or
\* oldest first when "oldest" is selected; it is the empty sequence when
\* nothing matches or nobody is signed in.
C21_ViewIsFilteredAndOrdered ==
    LET view == filteredHistory
        matching == {i \in DOMAIN generationItems : Matches(generationItems[i])}
    IN /\ Len(view) = Cardinality(matching)
       /\ {view[i] : i \in DOMAIN view} = {generationItems[i] : i \in matching}
       /\ \A i, j \in DOMAIN view :
             i < j => IF sortBy = "oldest"
                      THEN view[i].createdAt <= view[j].createdAt
                      ELSE view[i].createdAt >= view[j].createdAt
       /\ matching = {} => view = <<>>
       /\ (authUser = "none" /\ history.pc = "done") => view = <<>>

\* C21 witness: a query in lower case selected the items of the prompt "Fox"
\* among others, shown oldest first.
C21_Witness ==
    /\ searchQuery = <<"f">>
    /\ sortBy = "oldest"
    /\ Len(filteredHistory) >= 2
    /\ Len(filteredHistory) < Len(generationItems)
    /\ filteredHistory[1].createdAt < filteredHistory[Len(filteredHistory)].createdAt

\* the view of a list of items under the active filters and order
ViewOf(items) == SortItems(SelectSeq(items, PassesFilter))

\* C22: two loads of the history for the same user with no write to the
\* tables in between give, under the same filters and order, the same items
\* in the same order, also when items share their creation time.
C22_RepeatedLoadSameView ==
    (history.pc = "done" /\ history.user # "none" /\ history.previous.user = history.user)
        => ViewOf(history.previous.items) = ViewOf(generationItems)

\* C23: loading, filtering and sorting the history never inserts, updates
\* or deletes a prompts, images or videos row: every step of the page leaves
\* the three tables as they are, whatever the filters.
C23_HistoryIsReadOnly ==
    [][/\ dbPrompts' = dbPrompts
       /\ dbImages' = dbImages
       /\ dbVideos' = dbVideos]_vars

\* C23 witness: a load has set a list of items and a type filter and a
\* search query are applied to it.
C23_Witness ==
    /\ history.pc = "done"
    /\ generationItems # <<>>
    /\ filterType = "video"
    /\ searchQuery = <<"f">>
    /\ sortBy = "oldest"
    /\ filteredHistory # <<>>

----------------------------------------------------------------------------
(* Claims about the storage keys of generateImage, checked under GenSpec *)

\* C24: every upload of generateImage goes under a key of its own: the
\* object is added under the key of the call's prompt, the item's index and
\* the time, no object of that prompt and index exists yet, and no object
\* stored before is replaced or removed.
C24_StorageKeysUnique ==
    [][storage' # storage =>
          \E t \in 0..MaxClock :
              LET key == FileName(gen.promptId, gen.index, t) IN
              /\ key \notin storage
              /\ storage' = storage \cup {key}
              /\ \A f \in storage : ~(f[1] = key[1] /\ f[2] = key[2])]_vars

\* C24 witness: next to the object of an earlier call, two items of one call
\* were uploaded at the same time.
C24_Witness ==
    /\ FileName(1, 0, 0) \in storage
    /\ \E t \in 0..MaxClock :
          {FileName(2, 0, t), FileName(2, 1, t)} \subseteq storage

----------------------------------------------------------------------------
(* Claims about the polled video's local copy, checked under PollSpec *)

\* C27: the local copy of a polled video never regresses: once it shows a
\* terminal status, no poll result overwrites it with a queued or running
\* snapshot, also when the queries overlap and finish out of order.
C27_LocalVideoNeverRegresses ==
    [][(videos \in TerminalStatus) => (videos' \notin {"queued", "running"})]_vars

----------------------------------------------------------------------------
(* Claims about the lifecycle of a hook call, checked under HookSpec *)

\* the hook's generate function of kind k starts a call for a signed-in user
HookStarts(k) == hook[k].pc = "idle" /\ hook'[k].pc = "awaiting"

\* the call of kind k settles: its promise resolves
HookSettles(k) == hook[k].pc # "idle" /\ hook'[k].pc = "idle"

\* the call of kind k failed: the API function threw
HookFailed(k) == hook[k].pc = "awaiting" /\ api[k].stage = "rejected"

----------------------------------------------------------------------------
(* Claims about the serverless proxy, checked under ProxySpec *)

ProxyReplied == proxy.pc = "replied"

\* the request is a POST whose body has a non-empty prompt, and the key is set
ProxyShouldForward ==
    /\ proxy.method = "POST"
    /\ proxy.body.present
    /\ proxy.body.prompt # <<>>
    /\ proxy.keySet

\* the status the claim gives to a request that is not forwarded
ProxyRefusalStatus ==
    IF proxy.method = "OPTIONS" THEN 200
    ELSE IF proxy.method # "POST" THEN 405
    ELSE IF ~proxy.body.present \/ proxy.body.prompt = <<>> THEN 400
    ELSE 500

\* C25: the handler calls the upstream API if and only if the method is POST,
\* the body has a non-empty prompt and the API key is configured; a request
\* it does not forward is answered 200 (OPTIONS), 405 (other methods), 400
\* (no prompt) or 500 (no key); an upstream error status is passed on, and on
\* success the upstream body is returned unchanged.
C25_ProxyOnlyForwards ==
    ProxyReplied =>
        /\ Len(proxy.upstream) = (IF ProxyShouldForward THEN 1 ELSE 0)
        /\ ~ProxyShouldForward => proxy.status = ProxyRefusalStatus
        /\ ProxyShouldForward /\ proxy.upstream[1].kind = "error"
              => proxy.status = proxy.upstream[1].status
        /\ ProxyShouldForward /\ proxy.upstream[1].kind = "ok"
              => proxy.status = 200 /\ proxy.reply = proxy.upstream[1].data

\* the same for the requests that carry a body
C25_HoldsWithBody == ProxyReplied /\ proxy.body.present => C25_ProxyOnlyForwards

C25_PostWithoutBody ==
    ProxyReplied /\ proxy.method = "POST" /\ ~proxy.body.present /\ proxy.keySet

----------------------------------------------------------------------------
(* Claims about the providers' caches, checked under CacheSpec *)

\* the owner of a cached images or videos row, by its prompt
RowOwner(row) == dbPrompts[row.prompt_id].user_id

\* C28: while no user is signed in the images, videos and prompts caches are
\* empty, also when a refresh that started before the sign-out finishes after
\* it; and a cache never holds rows of a user other than the current one.
C28_CachesFollowUser ==
    /\ authUser = "none" => images = <<>> /\ userVideos = <<>> /\ prompts = <<>>
    /\ \A i \in DOMAIN images : RowOwner(images[i]) = authUser
    /\ \A i \in DOMAIN userVideos : RowOwner(userVideos[i]) = authUser
    /\ \A i \in DOMAIN prompts : prompts[i].user_id = authUser

----------------------------------------------------------------------------
(* Claims about the credits, checked under CreditSpec *)

\* the sum of the amounts of the calls of a kind that succeeded
RECURSIVE SumDone(_, _)
SumDone(cs, kind) ==
    IF cs = <<>> THEN 0
    ELSE (IF Head(cs).kind = kind /\ Head(cs).stage = "done" THEN Head(cs).amount ELSE 0)
             + SumDone(Tail(cs), kind)

\* every call made so far has returned, and every update has succeeded
AllCreditCallsSucceeded ==
    \A c \in DOMAIN creditCalls : creditCalls[c].stage \in {"done", "refused"}

\* C29: credits are never driven negative and never lost: when every
\* deductCredits and addCredits call has succeeded, the stored
\* credits_remaining is the initial balance minus the deducted amounts plus
\* the added amounts, whatever the interleaving of the calls.
C29_CreditsConserved ==
    /\ dbCredits >= 0
    /\ AllCreditCallsSucceeded =>
          dbCredits = startCredits - SumDone(creditCalls, "deduct")
                          + SumDone(creditCalls, "add")

----------------------------------------------------------------------------
(* Claims about the app shell, checked under NavSpec *)

\* the main area shows the page of a section that requires authentication
ProtectedShown == renderActiveSection \in {"image", "video", "history", "profile"}

\* without a user, once the auth state is known: the login page or Home, and
\* no navigation bar on a protected section
SignedOutView ==
    (authUser = "none" /\ ~authLoading) =>
        /\ renderActiveSection \in {"login", "home"}
        /\ needsAuth(activeSection) => ~shouldShowNavigation

====
